---- MODULE Spec2Model ----
(***************************************************************************)
(* StudyPath AI (take1.py): one Streamlit session talking to one MongoDB   *)
(* collection.  Every user interaction reruns main() from the top; a run   *)
(* is modelled as the chain  rerun -> Generate (when the button was        *)
(* pressed) -> Display -> CheckboxStep* -> EndPass, ordered by pc.         *)
(*                                                                         *)
(* A topic name is kept as the sequence of its '.'-separated segments      *)
(* (<<"A","B">> is the string "A.B"), because update_progress splices the  *)
(* name into a dotted MongoDB field path.                                  *)
(***************************************************************************)
EXTENDS Naturals, Integers, Sequences, FiniteSets, TLC

VARIABLES
    docs,           \* the collection study_plans.plans; a document's _id is its index
    session_state,  \* st.session_state: keys "plan" and "progress" once initialised
    widgets,        \* Streamlit's state of the check_<name> checkboxes
    inputs,         \* the values of the four input widgets
    pc,             \* position of the script run
    idx,            \* position of the checkbox loop in the flattened topic list
    generated,      \* what generate_study_plan did in this run
    events,         \* calls made by the generation attempt of this run, in order
    attempt,        \* how the generation attempt of this run ended
    banner,         \* st.success / st.error shown by this run
    shown,          \* the progress value rendered by this run
    writes,         \* update_progress calls issued by this run, in order
    unhandled       \* an exception left main() in this run

vars == <<docs, session_state, widgets, inputs, pc, idx, generated, events, attempt,
          banner, shown, writes, unhandled>>

\* Bound on the number of plans the session saves.
MaxDocs == 2

\* ------------------------------------------------------------------------
\* Values

NameA == <<"A">>
NameAB == <<"A", "B">>

EmptyMap == [k \in {} |-> FALSE]

\* dict.get(key, default)
Get(d, k, default) == IF k \in DOMAIN d THEN d[k] ELSE default

\* d[key] = value
Put(d, k, v) == [x \in DOMAIN d \cup {k} |-> IF x = k THEN v ELSE d[x]]

NoVideoKey == [kind |-> "unset", id |-> "", title |-> "", url |-> <<>>, thumbnail |-> ""]
None == [kind |-> "None", id |-> "", title |-> "", url |-> <<>>, thumbnail |-> ""]

Topic(n) == [name |-> n, video |-> NoVideoKey]
Week(names) == [topics |-> [i \in 1..Len(names) |-> Topic(names[i])]]

\* st.session_state.plan = None
NoPlan == [present |-> FALSE, weeks |-> <<>>, id |-> 0]

\* The Python values a model response can denote.
PyDict(weeks) == [type |-> "dict", keys |-> {"weeks"}, weeks |-> weeks]
PyDictNoWeeks == [type |-> "dict", keys |-> {"plan"}, weeks |-> <<>>]
PyList == [type |-> "list", keys |-> {}, weeks |-> <<>>]

\* Every plan dict carries the fields the page renders (week_number,
\* focus_area, objectives, recommended_hours, hours, description); only the
\* topic names and videos are kept.
Literals ==
    [two_weeks  |-> PyDict(<<Week(<<NameA>>), Week(<<NameAB>>)>>),
     duplicate  |-> PyDict(<<Week(<<NameA, NameA>>)>>),
     no_weeks   |-> PyDict(<<>>),
     no_key     |-> PyDictNoWeeks,
     a_list     |-> PyList]

\* The three-backquote marker of a markdown code fence.
Fence == "fence"

\* Response texts: a literal, bare or inside a markdown fence, or prose.
Atoms == DOMAIN Literals \cup {"prose"}
Contents ==
    UNION {{<<b>>, <<Fence, "json", b, Fence>>, <<Fence, b, Fence>>} : b \in Atoms}

DefaultInputs ==
    [subject |-> "", current_level |-> "Beginner",
     target_level |-> "Intermediate", hours_per_week |-> 10]
InputChoices ==
    {DefaultInputs,
     [subject |-> "ML", current_level |-> "Intermediate",
      target_level |-> "Expert", hours_per_week |-> 40]}

\* ------------------------------------------------------------------------
\* MongoDBClient

\* insert_one(plan).inserted_id
save_plan(store, plan) == [docs |-> Append(store, plan), inserted_id |-> Len(store) + 1]

IsPrefix(p, q) == Len(p) <= Len(q) /\ SubSeq(q, 1, Len(p)) = p

\* f"progress.{topic}", as MongoDB reads it: a path of field names.
ProgressPath(topic) == <<"progress">> \o topic

\* $set of one dotted path inside the progress sub-document, whose content is
\* kept as the set of its leaves (path below "progress", value).
SetPath(leaves, path, value) ==
    LET p == Tail(path) IN
    {l \in leaves : ~IsPrefix(p, l.path)} \cup {[path |-> p, value |-> value]}

\* MongoDB refuses to create a field below a non-document value.
PathBlocked(leaves, path) ==
    LET p == Tail(path) IN
    \E l \in leaves : IsPrefix(l.path, p) /\ l.path /= p

update_progress(store, plan_id, topic, completed) ==
    IF plan_id \notin 1..Len(store)
    THEN [raised |-> FALSE, docs |-> store]
    ELSE IF PathBlocked(store[plan_id].progress, ProgressPath(topic))
    THEN [raised |-> TRUE, docs |-> store]
    ELSE [raised |-> FALSE,
          docs |-> [store EXCEPT ![plan_id].progress =
                        SetPath(@, ProgressPath(topic), completed)]]

\* ------------------------------------------------------------------------
\* generate_study_plan

RECURSIVE ReplaceFenceJson(_)
\* .replace(<fence>json, '')
ReplaceFenceJson(s) ==
    IF Len(s) = 0 THEN <<>>
    ELSE IF Len(s) >= 2 /\ s[1] = Fence /\ s[2] = "json"
    THEN ReplaceFenceJson(SubSeq(s, 3, Len(s)))
    ELSE <<s[1]>> \o ReplaceFenceJson(Tail(s))

\* .replace(<fence>, '')
ReplaceFence(s) == SelectSeq(s, LAMBDA a : a /= Fence)

\* eval(text)
Eval(s) ==
    IF Len(s) = 1 /\ s[1] \in DOMAIN Literals
    THEN [raised |-> FALSE, value |-> Literals[s[1]]]
    ELSE [raised |-> TRUE, value |-> PyList]

\* "weeks": 4
PromptWeeks == 4

\* the variables handed to chain.invoke
InvokeArgs(subject, current_level, target_level, hours_per_week) ==
    [fn |-> "invoke", subject |-> subject, current_level |-> current_level,
     target_level |-> target_level, hours_per_week |-> hours_per_week, weeks |-> PromptWeeks]

\* invokeOk: whether chain.invoke returned; content: response.content
generate_study_plan(invokeOk, content) ==
    IF ~invokeOk THEN [raised |-> TRUE, value |-> PyList]
    ELSE Eval(ReplaceFence(ReplaceFenceJson(content)))

\* ------------------------------------------------------------------------
\* find_youtube_video

\* Faulty variant: the query is the topic name alone.
QueryMut(name, subject) == <<name, "">>

\* f"{topic['name']} {subject}"
Query(name, subject) == <<name, subject>>

\* The search service's answer to a query, when it answers: the first result,
\* or nothing (here: nothing is found for topic "A.B").
SearchResults(query) ==
    IF query[1] = NameAB THEN <<>>
    ELSE <<[id |-> "v1", title |-> "t1", thumbnails |-> <<"th1">>]>>

\* searchOk: whether YoutubeSearch(query, max_results=1).to_dict() returned
find_youtube_video(searchOk, query) ==
    IF ~searchOk THEN [raised |-> TRUE, value |-> None]
    ELSE LET results == SearchResults(query) IN
         IF Len(results) > 0
         THEN LET video == results[1] IN
              [raised |-> FALSE,
               value |-> [kind |-> "ref", id |-> video.id, title |-> video.title,
                          url |-> <<"https://youtube.com/watch?v=", video.id>>,
                          thumbnail |-> video.thumbnails[1]]]
         ELSE [raised |-> FALSE, value |-> None]

\* ------------------------------------------------------------------------
\* main: plan traversal

RECURSIVE Flatten(_)
\* for week in plan['weeks'] for topic in week['topics']
Flatten(weeks) ==
    IF Len(weeks) = 0 THEN <<>> ELSE weeks[1].topics \o Flatten(Tail(weeks))

\* topic['video'] = find_youtube_video(...) for every topic
Enriched(weeks, subject) ==
    [w \in 1..Len(weeks) |->
        [topics |->
            [t \in 1..Len(weeks[w].topics) |->
                [weeks[w].topics[t] EXCEPT
                    !.video = find_youtube_video(
                                  TRUE, Query(weeks[w].topics[t].name, subject)).value]]]]

\* the lookups made before the loop ends or one raises
Searches(flat, searchOk, subject) ==
    LET failing == {i \in 1..Len(flat) :
                       find_youtube_video(searchOk[i], Query(flat[i].name, subject)).raised}
        last == IF failing = {} THEN Len(flat)
                ELSE CHOOSE i \in failing : \A j \in failing : i <= j
    IN  [i \in 1..last |->
            [fn |-> "search", query |-> Query(flat[i].name, subject),
             raised |-> ~searchOk[i]]]

\* Faulty variant: a failed lookup is swallowed and the loop carries on to the save.
LoopRaisedMut(lookups) == FALSE

\* find_youtube_video is called bare inside the loop: its exception leaves the loop
LoopRaised(lookups) == Len(lookups) > 0 /\ lookups[Len(lookups)].raised

\* Faulty variant: the save sits outside the try block.
CaughtMut(kind) == kind \in {"generation_error", "shape_error", "lookup_error"}

\* except Exception as e: every failure raised inside the try block is caught
Caught(kind) == kind \in {"generation_error", "shape_error", "lookup_error", "save_error"}

\* Faulty variant: the handler clears the session's plan.
OnErrorMut(plan) == NoPlan

\* the handler only calls st.error: st.session_state.plan keeps its value
OnError(plan) == plan

\* {**plan, "_id": plan_id}
SessionPlan(weeks, plan_id) == [present |-> TRUE, weeks |-> weeks, id |-> plan_id]

\* {**plan, "subject": subject, "created_at": ..., "progress": {}}
NewDocument(weeks, subject) == [weeks |-> weeks, subject |-> subject, progress |-> {}]

\* The try block of the button handler and its except clause.
\* saveOk: whether insert_one succeeds.
TryBlock(store, plan, in, invokeOk, content, searchOk, saveOk) ==
    LET gen == generate_study_plan(invokeOk, content)
        call == <<InvokeArgs(in.subject, in.current_level, in.target_level,
                             in.hours_per_week)>>
        failed(kind, evs) ==
            [attempt |-> kind, events |-> evs, docs |-> store,
             banner |-> IF Caught(kind) THEN "error" ELSE "none",
             unhandled |-> ~Caught(kind),
             plan |-> OnError(plan)]
    IN
    IF gen.raised THEN failed("generation_error", call)
    ELSE IF gen.value.type /= "dict" \/ "weeks" \notin gen.value.keys
    THEN failed("shape_error", call)
    ELSE
        LET weeks == gen.value.weeks
            lookups == Searches(Flatten(weeks), searchOk, in.subject)
            searched == call \o lookups
        IN
        IF LoopRaised(lookups)
        THEN failed("lookup_error", searched)
        ELSE IF ~saveOk
        THEN failed("save_error",
                    Append(searched, [fn |-> "save_plan", inserted_id |-> 0]))
        ELSE
            LET saved == save_plan(store, NewDocument(Enriched(weeks, in.subject), in.subject))
            IN  [attempt |-> "ok", banner |-> "success", unhandled |-> FALSE,
                 events |-> searched \o
                            <<[fn |-> "save_plan", inserted_id |-> saved.inserted_id],
                              [fn |-> "set_plan", id |-> saved.inserted_id]>>,
                 docs |-> saved.docs,
                 plan |-> SessionPlan(Enriched(weeks, in.subject), saved.inserted_id)]

\* sum(len(w['topics']) ...)
TotalTopics(weeks) == Len(Flatten(weeks))

\* Faulty variant: every checked key of the mapping counts, in the plan or not.
CompletedMut(weeks, progress) ==
    Cardinality({k \in DOMAIN progress : progress[k]})

\* sum(st.session_state.progress.get(t['name'], False) ...)
Completed(weeks, progress) ==
    Cardinality({i \in 1..Len(Flatten(weeks)) :
                    Get(progress, Flatten(weeks)[i].name, FALSE)})

\* completed / total_topics if total_topics > 0 else 0, as a fraction
Progress(weeks, progress) ==
    IF TotalTopics(weeks) > 0
    THEN [set |-> TRUE, num |-> Completed(weeks, progress), den |-> TotalTopics(weeks)]
    ELSE [set |-> TRUE, num |-> 0, den |-> 1]

NotCalled == [called |-> FALSE, raised |-> FALSE, value |-> PyList]

NotShown == [set |-> FALSE, num |-> 0, den |-> 1]

\* Faulty variant: a ticked box is written on every run.
ChangedMut(checked, known) == checked

\* checked != st.session_state.progress.get(topic['name'], False)
Changed(checked, known) == checked /= known

\* Streamlit forgets the state of a widget the run did not render.
Restrict(f, S) == [x \in DOMAIN f \cap S |-> f[x]]

\* ------------------------------------------------------------------------
\* The session

Init ==
    /\ docs = <<>>
    /\ session_state = EmptyMap
    /\ widgets = EmptyMap
    /\ inputs = DefaultInputs
    /\ pc = "idle"
    /\ idx = 1
    /\ generated = NotCalled
    /\ events = <<>>
    /\ attempt = "none"
    /\ banner = "none"
    /\ shown = NotShown
    /\ writes = <<>>
    /\ unhandled = FALSE

\* if 'plan' not in st.session_state ... if 'progress' not in st.session_state ...
SessionInit(ss) ==
    LET withPlan == IF "plan" \notin DOMAIN ss THEN Put(ss, "plan", NoPlan) ELSE ss
    IN  IF "progress" \notin DOMAIN withPlan
        THEN Put(withPlan, "progress", EmptyMap)
        ELSE withPlan

\* A script run starts: nothing rendered yet.
StartRun(next) ==
    /\ session_state' = SessionInit(session_state)
    /\ pc' = next
    /\ idx' = 1
    /\ generated' = NotCalled
    /\ events' = <<>>
    /\ attempt' = "none"
    /\ banner' = "none"
    /\ shown' = NotShown
    /\ writes' = <<>>
    /\ unhandled' = FALSE

\* The user edits the subject, a level or the hours: a run without the button.
ChangeInputs ==
    /\ pc = "idle"
    /\ \E in \in InputChoices : inputs' = in
    /\ StartRun("display")
    /\ UNCHANGED <<docs, widgets>>

\* The user presses "Generate Smart Plan".
ClickGenerate ==
    /\ pc = "idle"
    /\ Len(docs) < MaxDocs
    /\ StartRun("generate")
    /\ UNCHANGED <<docs, widgets, inputs>>

\* The user clicks one of the checkboxes on the page.
ToggleCheckbox ==
    /\ pc = "idle"
    /\ \E name \in DOMAIN widgets : widgets' = [widgets EXCEPT ![name] = ~@]
    /\ StartRun("display")
    /\ UNCHANGED <<docs, inputs>>

Generate ==
    /\ pc = "generate"
    /\ \E invokeOk \in BOOLEAN, content \in Contents, saveOk \in BOOLEAN :
        LET gen == generate_study_plan(invokeOk, content)
            n == IF gen.raised THEN 0 ELSE TotalTopics(gen.value.weeks)
        IN \E searchOk \in [1..n -> BOOLEAN] :
            LET r == TryBlock(docs, session_state["plan"], inputs, invokeOk,
                              content, searchOk, saveOk)
            IN  /\ generated' = [called |-> TRUE, raised |-> gen.raised,
                                 value |-> gen.value]
                /\ docs' = r.docs
                /\ session_state' = Put(session_state, "plan", r.plan)
                /\ events' = r.events
                /\ attempt' = r.attempt
                /\ banner' = r.banner
                /\ unhandled' = r.unhandled
                /\ IF r.unhandled
                   THEN pc' = "idle" /\ widgets' = Restrict(widgets, {})
                   ELSE pc' = "display" /\ UNCHANGED widgets
    /\ UNCHANGED <<inputs, idx, shown, writes>>

Display ==
    /\ pc = "display"
    /\ LET plan == session_state["plan"] IN
        IF plan.present
        THEN /\ shown' = Progress(plan.weeks, session_state["progress"])
             /\ pc' = "loop"
             /\ UNCHANGED widgets
        ELSE /\ pc' = "idle"
             /\ widgets' = Restrict(widgets, {})
             /\ UNCHANGED shown
    /\ UNCHANGED <<docs, session_state, inputs, idx, generated, events, attempt,
                   banner, writes, unhandled>>

\* names of the checkboxes the loop has rendered before position i
Rendered(flat, i) == {flat[j].name : j \in 1..(i - 1)}

CheckboxStep ==
    /\ pc = "loop"
    /\ LET plan == session_state["plan"]
           progress == session_state["progress"]
           flat == Flatten(plan.weeks)
       IN
       /\ idx <= Len(flat)
       /\ LET name == flat[idx].name
              known == Get(progress, name, FALSE)
              checked == Get(widgets, name, known)
              abort == /\ unhandled' = TRUE
                       /\ pc' = "idle"
                       /\ idx' = idx
          IN
          IF name \in Rendered(flat, idx)
          THEN \* a second widget with key check_<name>: Streamlit raises
               /\ abort
               /\ widgets' = Restrict(widgets, Rendered(flat, idx))
               /\ UNCHANGED <<docs, session_state, writes>>
          ELSE IF Changed(checked, known)
          THEN \E storeOk \in BOOLEAN :
               LET r == IF storeOk
                        THEN update_progress(docs, plan.id, name, checked)
                        ELSE [raised |-> TRUE, docs |-> docs]
               IN  /\ session_state' = Put(session_state, "progress",
                                           Put(progress, name, checked))
                   /\ writes' = Append(writes, [plan_id |-> plan.id, topic |-> name,
                                                completed |-> checked])
                   /\ docs' = r.docs
                   /\ IF r.raised
                      THEN /\ abort
                           /\ widgets' = Restrict(Put(widgets, name, checked),
                                                  Rendered(flat, idx + 1))
                      ELSE /\ idx' = idx + 1
                           /\ widgets' = Put(widgets, name, checked)
                           /\ UNCHANGED <<pc, unhandled>>
          ELSE /\ idx' = idx + 1
               /\ widgets' = Put(widgets, name, checked)
               /\ UNCHANGED <<docs, session_state, writes, pc, unhandled>>
    /\ UNCHANGED <<inputs, generated, events, attempt, banner, shown>>

EndPass ==
    /\ pc = "loop"
    /\ LET flat == Flatten(session_state["plan"].weeks) IN
        /\ idx > Len(flat)
        /\ widgets' = Restrict(widgets, Rendered(flat, idx))
    /\ pc' = "idle"
    /\ UNCHANGED <<docs, session_state, inputs, idx, generated, events, attempt,
                   banner, shown, writes, unhandled>>

Next ==
    \/ ChangeInputs
    \/ ClickGenerate
    \/ ToggleCheckbox
    \/ Generate
    \/ Display
    \/ CheckboxStep
    \/ EndPass

Spec == Init /\ [][Next]_vars

\* ------------------------------------------------------------------------
\* Properties

\* document["progress"].get(name) read back from a stored document: the key
\* is the whole name, so only a one-segment path can hold it.
StoredProgress(doc, name) ==
    IF Len(name) = 1 /\ [path |-> name, value |-> TRUE] \in doc.progress THEN "true"
    ELSE IF Len(name) = 1 /\ [path |-> name, value |-> FALSE] \in doc.progress THEN "false"
    ELSE IF Len(name) = 1 /\ \E l \in doc.progress : IsPrefix(name, l.path) THEN "document"
    ELSE "absent"

SearchRaised(evs) == \E i \in DOMAIN evs : evs[i].fn = "search" /\ evs[i].raised
SaveCalled(evs) == \E i \in DOMAIN evs : evs[i].fn = "save_plan"
SaveFailed(evs) == \E i \in DOMAIN evs : evs[i].fn = "save_plan" /\ evs[i].inserted_id = 0

\* C1: when a video lookup of a generation attempt raises, on the first topic
\* or a later one, the attempt fails, save_plan is not called in it and the
\* store holds exactly the documents it held before the attempt.
C1_LookupFailureSavesNothing ==
    [][(pc = "generate" /\ SearchRaised(events'))
        => /\ docs' = docs
           /\ ~SaveCalled(events')
           /\ attempt' = "lookup_error"
           /\ banner' = "error"]_vars

\* C1 witness: the second lookup of an attempt raised after the first returned,
\* with a document of an earlier attempt in the store.
C1_Witness ==
    /\ attempt = "lookup_error"
    /\ Len(events) = 3
    /\ ~events[2].raised /\ events[3].raised
    /\ Len(docs) = 1

\* C2 as stated: after an attempt that ended in an exception the session's
\* plan is absent and the error message is shown.
C2_PlanAbsentAfterFailure ==
    (attempt \in {"generation_error", "shape_error", "lookup_error", "save_error"})
        => (~session_state["plan"].present /\ banner = "error")

\* C2 amended: an attempt that ends in an exception leaves the session's plan
\* what it was before the attempt and shows the error message; a plan that is
\* present always names a saved document.
C2_PlanUnchangedAfterFailure ==
    /\ [][(pc = "generate" /\ attempt' /= "ok")
            => /\ session_state'["plan"] = session_state["plan"]
               /\ banner' = "error"
               /\ unhandled' = FALSE]_vars
    /\ []("plan" \in DOMAIN session_state /\ session_state["plan"].present
            => session_state["plan"].id \in 1..Len(docs))

\* C2 witness: an attempt failed while the plan of an earlier attempt was present.
C2_Witness ==
    /\ attempt \in {"generation_error", "shape_error", "lookup_error", "save_error"}
    /\ session_state["plan"].present
    /\ banner = "error"

JustDisplayed == pc = "loop" /\ idx = 1

\* C4 as stated: the progress value is (distinct topic names of the plan whose
\* in-memory value is true) / (total topics), 0 for a plan without topics,
\* and within [0, 1].
C4_ProgressCountsDistinctNames ==
    JustDisplayed =>
        LET flat == Flatten(session_state["plan"].weeks)
            progress == session_state["progress"]
            names == {flat[i].name : i \in 1..Len(flat)}
            checked == {n \in names : Get(progress, n, FALSE)}
        IN  /\ shown.set
            /\ shown.den > 0 /\ 0 <= shown.num /\ shown.num <= shown.den
            /\ Len(flat) = 0 => shown.num = 0
            /\ Len(flat) > 0 => shown.num * Len(flat) = Cardinality(checked) * shown.den

\* C4 amended: the progress value is (topics of the plan, each occurrence
\* counted, whose name's in-memory value is true) / (total topics), 0 for a
\* plan without topics, and within [0, 1].
C4_ProgressCountsTopics ==
    JustDisplayed =>
        LET flat == Flatten(session_state["plan"].weeks)
            progress == session_state["progress"]
            checked == {i \in 1..Len(flat) :
                           flat[i].name \in DOMAIN progress /\ progress[flat[i].name]}
        IN  /\ shown.set
            /\ shown.den > 0 /\ 0 <= shown.num /\ shown.num <= shown.den
            /\ Len(flat) = 0 => shown.num = 0
            /\ Len(flat) > 0 => shown.num * Len(flat) = Cardinality(checked) * shown.den

\* C4 witness: a plan naming one topic twice is displayed with that name checked.
C4_Witness ==
    /\ JustDisplayed
    /\ LET flat == Flatten(session_state["plan"].weeks) IN
        /\ Len(flat) = 2
        /\ flat[1].name = flat[2].name
        /\ Get(session_state["progress"], flat[1].name, FALSE)
    /\ shown.num = 2

\* C5 as stated: a write update_progress(plan_id, topic, completed) that
\* returns leaves progress[topic] of that document equal to completed and
\* every other document as it was.
C5_WriteSetsNamedField ==
    [][(pc = "loop" /\ writes' /= writes /\ ~unhandled')
        => LET w == writes'[Len(writes')] IN
           /\ StoredProgress(docs'[w.plan_id], w.topic)
                = (IF w.completed THEN "true" ELSE "false")
           /\ \A i \in 1..Len(docs) : i /= w.plan_id => docs'[i] = docs[i]]_vars

\* C6: a successful attempt calls the generator once with the four inputs and
\* the week count 4, then looks up each topic once with (topic name, subject)
\* in plan order, then saves once, and only then sets the session's plan, with
\* the identifier the save returned.
C6_SuccessfulAttemptOrder ==
    attempt = "ok" =>
        LET plan == session_state["plan"]
            flat == Flatten(plan.weeks)
        IN  /\ plan.present
            /\ plan.id \in 1..Len(docs)
            /\ docs[plan.id].weeks = plan.weeks
            /\ docs[plan.id].subject = inputs.subject
            /\ events =
                 <<[fn |-> "invoke", subject |-> inputs.subject,
                    current_level |-> inputs.current_level,
                    target_level |-> inputs.target_level,
                    hours_per_week |-> inputs.hours_per_week, weeks |-> 4]>>
                 \o [i \in 1..Len(flat) |->
                        [fn |-> "search", query |-> <<flat[i].name, inputs.subject>>,
                         raised |-> FALSE]]
                 \o <<[fn |-> "save_plan", inserted_id |-> plan.id],
                      [fn |-> "set_plan", id |-> plan.id]>>

\* C6 witness: a successful attempt for subject "ML" with two topics.
C6_Witness ==
    /\ attempt = "ok"
    /\ inputs.subject = "ML"
    /\ Len(events) = 5
    /\ events[2].query[1] /= events[3].query[1]

\* C7 as stated: generate_study_plan returns a plan with a non-empty weeks
\* sequence or raises.
C7_ReturnsWeeksOrRaises ==
    (generated.called /\ ~generated.raised)
        => /\ generated.value.type = "dict"
           /\ "weeks" \in generated.value.keys
           /\ Len(generated.value.weeks) > 0

\* C8: for each checkbox a run renders, update_progress(current plan id,
\* topic name, checkbox value) is issued exactly when the checkbox value
\* differs from the in-memory value (absent is false); then the in-memory
\* value is set to the checkbox value even if the write fails, and otherwise
\* neither the mapping nor the store is touched.
C8_WriteIffChanged ==
    [][(pc = "loop" /\ (idx' /= idx \/ unhandled'))
        => LET plan == session_state["plan"]
               progress == session_state["progress"]
               name == Flatten(plan.weeks)[idx].name
               known == IF name \in DOMAIN progress THEN progress[name] ELSE FALSE
               returned == name \notin Rendered(Flatten(plan.weeks), idx)
           IN  IF returned /\ widgets'[name] /= known
               THEN /\ writes' = Append(writes, [plan_id |-> plan.id, topic |-> name,
                                                 completed |-> widgets'[name]])
                    /\ session_state'["progress"] =
                         [k \in DOMAIN progress \cup {name} |->
                             IF k = name THEN widgets'[name] ELSE progress[k]]
                    /\ session_state'["plan"] = plan
               ELSE /\ writes' = writes
                    /\ session_state' = session_state
                    /\ docs' = docs]_vars

\* C8 witness: a run issued a write for a changed checkbox and went on.
C8_Witness ==
    /\ pc = "loop"
    /\ Len(writes) = 1
    /\ writes[1].completed
    /\ idx = 2

\* A run rendered the plan to the end and no exception left it.
PassCompleted ==
    /\ pc = "idle"
    /\ shown.set
    /\ ~unhandled
    /\ attempt /= "save_error"

\* C9 as stated, for the topics whose name has no '.': after a completed run
\* the in-memory value of every topic of the current plan equals the value
\* stored in the current plan's document (absent is false).
C9_MemoryMatchesStore ==
    PassCompleted =>
        LET plan == session_state["plan"]
            flat == Flatten(plan.weeks)
        IN  \A i \in 1..Len(flat) :
                Len(flat[i].name) = 1 =>
                    (Get(session_state["progress"], flat[i].name, FALSE)
                        <=> StoredProgress(docs[plan.id], flat[i].name) = "true")

\* C10 as stated: the percentage a completed run displayed equals
\* checked / total over the in-memory mapping as it stands at the end of the run.
C10_DisplayedMatchesFinalMapping ==
    PassCompleted =>
        LET plan == session_state["plan"]
            flat == Flatten(plan.weeks)
            checked == {i \in 1..Len(flat) :
                           Get(session_state["progress"], flat[i].name, FALSE)}
        IN  Len(flat) > 0 => shown.num * Len(flat) = Cardinality(checked) * shown.den

====
